---- MODULE Spec2Model ----
(***************************************************************************)
(* The growth simulation of src/model.py: Leaf, Branch and Scene.          *)
(*                                                                         *)
(* Objects live in two arenas (branchObjs, leafObjs) in order of creation; *)
(* a reference to an object is its index, None is 0 and the "rejected"     *)
(* split sentinel is -1 as in the source.  Scene.update is followed step   *)
(* by step: the position of its two loops is part of the state (pc, bi,    *)
(* oi, ei) and Branch.update is followed through its four phases (phase).  *)
(*                                                                         *)
(* Numbers.  Lengths are exact multiples of a unit, so that no rounding    *)
(* is modelled:                                                            *)
(*   - height is counted in growth increments (0.001 in the source);       *)
(*     HeightSteps increments make the height 1;                           *)
(*   - radius is counted in units of 1/RADIUS_ONE; the root's increment    *)
(*     0.00001 is RADIUS_INC units and the root starts at 0.1.  The unit   *)
(*     is fine enough for every product with the taper factors down to     *)
(*     depth MAX_DEPTH to be a whole number of units.                      *)
(* Positions and Euler angles of branches and leaves decide nothing in the *)
(* growth rules and are left out, with the random angles drawn for them.   *)
(* Of the camera the Euler angles are kept, in whole degrees; its position *)
(* and the vectors Player.update derives from the angles are left out.     *)
(***************************************************************************)
EXTENDS Integers, Sequences, FiniteSets, TLC

(* ---------------- bounds of the model ---------------- *)
\* Scene.update is called at most MaxTicks times.
MaxTicks == 16
\* Number of 0.001 increments that take a height from 0 to 1 (1000 in the source).
HeightSteps == 2
\* Scene.spin_camera is called at most MaxSpins times.
MaxSpins == 3

(* ---------------- constants.py (not among the sources) ---------------- *)
OBJECT_LEAF == "OBJECT_LEAF"
OBJECT_BRANCH == "OBJECT_BRANCH"
EVENT_NEW == "EVENT_NEW"
EVENT_DEL == "EVENT_DEL"
MAX_DEPTH == 5
\* 0.06
MIN_EXTEND_RADIUS == 1536000
\* 0.100135
LEAF_GROWING_MAX_RADIUS == 2563456
\* 3/4 and 1/2, as <<numerator, denominator>>
BRANCH_TOP_RADIUS == <<3, 4>>
BRANCH_SPLIT_RADIUS == <<1, 2>>

(* ---------------- literals of src/model.py ---------------- *)
\* the 1 of 1 / self.radius, in radius units
RADIUS_ONE == 25600000
\* radius = 0.1 of the root branch
ROOT_RADIUS == 2560000
\* self.radius += 0.00001
RADIUS_INC == 256
\* the values of self.above / self.split that are not branches
None == 0
Rejected == -1
\* random.random() falls in one of ten intervals [r/10, (r+1)/10)
RandomDraws == 0 .. 9

VARIABLES
    branchObjs,   \* every Branch ever constructed, by creation order
    leafObjs,     \* every Leaf ever constructed, by creation order
    renderables,  \* Scene.renderables: sequence of [key, list] in dict order
    events,       \* the local list `events` of Scene.update
    pc,           \* where Scene.update stands: idle, traverse, apply, raised
    bi,           \* traversal: index of the bucket being iterated
    oi,           \* traversal: index of the next object in that bucket
    ei,           \* application: index of the next event
    phase,        \* position inside Branch.update of the current object
    error,        \* the exception that ended the program, or "none"
    tick,         \* number of Scene.update calls started
    visited,      \* history: objects whose update ran in this tick, in order
    startReg,     \* history: renderables when this tick started
    startObjs,    \* history: branchObjs and leafObjs when this tick started
    camera,       \* Scene.camera: the Player's eulers, in whole degrees
    spins,        \* history: number of spin_camera calls, and the last dEulers
    bLog,         \* history, per branch: ticks of growth milestones and spawns
    lLog,         \* history, per leaf: age and tick at fall_off, updates since, removes
    shed          \* history: the leaf detached by the current Branch.update

vars == <<branchObjs, leafObjs, renderables, events, pc, bi, oi, ei, phase,
          error, tick, visited, startReg, startObjs, camera, spins,
          bLog, lLog, shed>>

(* ---------------- Event, Entity ---------------- *)
Ref(objectType, id) == [objectType |-> objectType, id |-> id]
Event(type, data) == [type |-> type, data |-> data]

(* ---------------- Leaf ---------------- *)
\* Leaf.__init__
NewLeaf(branch) == [branch |-> branch, age |-> 1, dying |-> FALSE]

\* variant of Leaf.fall_off that also sets the age back to 1
fall_off_ResetsAge(leaf) == [leaf EXCEPT !.dying = TRUE, !.age = 1]

\* Leaf.fall_off
fall_off(leaf) == [leaf EXCEPT !.dying = TRUE]

\* variant of Leaf.update that lacks the else branch: the age always grows
LeafAfterUpdate_AlwaysGrows(leaf) == [leaf EXCEPT !.age = @ + 1]

\* Leaf.update: the leaf after the call
LeafAfterUpdate(leaf) ==
    IF ~leaf.dying THEN [leaf EXCEPT !.age = @ + 1]
    ELSE [leaf EXCEPT !.age = @ - 1]

\* variant of Leaf.update that tests age == 0 before decrementing
LeafReturnsDel_BeforeDecrement(leaf) ==
    leaf.dying /\ leaf.age = 0

\* Leaf.update: does the call return Event(EVENT_DEL, self)?
LeafReturnsDel(leaf) ==
    leaf.dying /\ LeafAfterUpdate(leaf).age = 0

(* ---------------- Branch ---------------- *)
\* Branch.__init__
NewBranch(parent, radius, height, depth) ==
    [radius |-> radius, height |-> height, parent |-> parent,
     above |-> None, split |-> None, leaves |-> <<>>,
     age |-> 0, depth |-> depth]

\* variant of Branch.__init__ that copies the parent's depth
DepthOf_SameAsParent(bs, parent) ==
    IF parent # None THEN bs[parent].depth ELSE 1

\* self.depth = self.parent.depth + 1 if self.parent else 1
DepthOf(bs, parent) == IF parent # None THEN bs[parent].depth + 1 ELSE 1

\* radius * BRANCH_TOP_RADIUS, radius * BRANCH_SPLIT_RADIUS
Scale(radius, factor) == (radius * factor[1]) \div factor[2]


\* variant of Branch.attempt_grow_wider in which every branch thickens itself
WiderRadius_EveryBranch(br) == br.radius + RADIUS_INC

\* if self.parent == None: self.radius += 0.00001
WiderRadius(br) ==
    IF br.parent = None THEN br.radius + RADIUS_INC ELSE br.radius

\* if self.radius > LEAF_GROWING_MAX_RADIUS and len(self.leaves) != 0
ShedsLeaf(br, radius) ==
    radius > LEAF_GROWING_MAX_RADIUS /\ Len(br.leaves) # 0

\* variant of Branch.attempt_grow_wider that calls fall_off() on the first leaf
PoppedLeaf_First(br) == br.leaves[1]

\* self.leaves.pop(): the list's last element
PoppedLeaf(br) == br.leaves[Len(br.leaves)]

\* self.split != None and self.split != -1
SplitIsBranch(br) == br.split # None /\ br.split # Rejected

\* variant of Branch.attempt_grow_wider that tapers the split child like the top
SplitChildRadius_TopFactor(radius) == Scale(radius, BRANCH_TOP_RADIUS)

\* the radius attempt_grow_wider assigns to the children
SplitChildRadius(radius) == Scale(radius, BRANCH_SPLIT_RADIUS)
AboveChildRadius(radius) == Scale(radius, BRANCH_TOP_RADIUS)

\* variant of Branch.attempt_grow_wider that does not write the split child
WiderBranches_AboveOnly(bs, b) ==
    LET br == bs[b]
        r  == WiderRadius(br)
        b1 == [bs EXCEPT ![b].radius = r,
                         ![b].leaves = IF ShedsLeaf(br, r)
                                       THEN SubSeq(@, 1, Len(@) - 1) ELSE @]
    IN  IF br.above # None
        THEN [b1 EXCEPT ![br.above].radius = AboveChildRadius(r)] ELSE b1

\* Branch.attempt_grow_wider: the branches after the call
WiderBranches(bs, b) ==
    LET br == bs[b]
        r  == WiderRadius(br)
        b1 == [bs EXCEPT ![b].radius = r,
                         ![b].leaves = IF ShedsLeaf(br, r)
                                       THEN SubSeq(@, 1, Len(@) - 1) ELSE @]
        b2 == IF SplitIsBranch(br)
              THEN [b1 EXCEPT ![br.split].radius = SplitChildRadius(r)] ELSE b1
    IN  IF br.above # None
        THEN [b2 EXCEPT ![br.above].radius = AboveChildRadius(r)] ELSE b2

\* Branch.attempt_grow_wider: the leaf it calls fall_off() on, or None
WiderShed(bs, b) ==
    IF ShedsLeaf(bs[b], WiderRadius(bs[b])) THEN PoppedLeaf(bs[b]) ELSE None

\* variant of Branch.attempt_extend that tests self.height <= 1
ExtendGrows_Inclusive(br) == br.height <= HeightSteps

\* Branch.attempt_extend: if self.height < 1
ExtendGrows(br) == br.height < HeightSteps

\* variant of Branch.attempt_extend that does not test self.above == None
ExtendFires_NoAboveCheck(br) ==
    /\ br.height >= HeightSteps
    /\ br.radius > MIN_EXTEND_RADIUS
    /\ br.depth < MAX_DEPTH

\* Branch.attempt_extend: the elif condition; the call returns True
ExtendFires(br) ==
    /\ ~ExtendGrows(br)
    /\ br.above = None
    /\ br.radius > MIN_EXTEND_RADIUS
    /\ br.depth < MAX_DEPTH

\* Branch.grow_branch
grow_branch(bs, b) ==
    Append([bs EXCEPT ![b].above = Len(bs) + 1],
           NewBranch(b, 0, 0, DepthOf(bs, b)))

\* Branch.split_branch
split_branch(bs, b) ==
    Append([bs EXCEPT ![b].split = Len(bs) + 1],
           NewBranch(b, 0, 0, DepthOf(bs, b)))

\* variant of Branch.attempt_extend that tries the extension first, whatever
\* the height, and leaves the height as it is
attempt_extend_ExtendFirst(bs, b) ==
    IF bs[b].above = None /\ bs[b].radius > MIN_EXTEND_RADIUS
                          /\ bs[b].depth < MAX_DEPTH
    THEN grow_branch(bs, b)
    ELSE IF bs[b].height < HeightSteps THEN [bs EXCEPT ![b].height = @ + 1]
    ELSE bs

\* Branch.attempt_extend: the branches after the call
attempt_extend(bs, b) ==
    IF ExtendGrows(bs[b]) THEN [bs EXCEPT ![b].height = @ + 1]
    ELSE IF ExtendFires(bs[b])
         THEN grow_branch([bs EXCEPT ![b].height = HeightSteps], b)
         ELSE bs

\* variant of Branch.attempt_split that does not test self.depth < MAX_DEPTH
SplitFires_NoDepthCheck(br, r) ==
    br.split = None /\ r < br.depth

\* Branch.attempt_split: the call returns True; r is the interval random() fell in
SplitFires(br, r) ==
    br.split = None /\ br.depth < MAX_DEPTH /\ r < br.depth

\* variant of Branch.attempt_split whose threshold is MAX_DEPTH * 0.5
DeepEnoughToRetry_Half(br) == 2 * br.depth > MAX_DEPTH

\* self.depth > MAX_DEPTH * 0.75
DeepEnoughToRetry(br) == 4 * br.depth > 3 * MAX_DEPTH

\* Branch.attempt_split: the branches after the call
attempt_split(bs, b, r) ==
    IF bs[b].split = None
    THEN IF SplitFires(bs[b], r) THEN split_branch(bs, b)
         ELSE [bs EXCEPT ![b].split = Rejected]
    ELSE IF bs[b].split = Rejected /\ DeepEnoughToRetry(bs[b])
         THEN [bs EXCEPT ![b].split = None]
         ELSE bs

\* Branch.attempt_grow_leaf: 1 / self.radius is evaluated with radius 0
LeafCheckRaises(br) ==
    br.radius < LEAF_GROWING_MAX_RADIUS /\ br.radius = 0

\* variant of Branch.attempt_grow_leaf without the test on the radius
LeafFires_NoRadiusCheck(br) ==
    /\ br.radius # 0
    /\ Len(br.leaves) * br.radius < RADIUS_ONE
    /\ br.above # None

\* variant of Branch.attempt_grow_leaf without the test self.above != None
LeafFires_NoAboveCheck(br) ==
    /\ br.radius < LEAF_GROWING_MAX_RADIUS
    /\ br.radius # 0
    /\ Len(br.leaves) * br.radius < RADIUS_ONE

\* Branch.attempt_grow_leaf: the condition; the call returns True
LeafFires(br) ==
    /\ br.radius < LEAF_GROWING_MAX_RADIUS
    /\ br.radius # 0
    /\ Len(br.leaves) * br.radius < RADIUS_ONE
    /\ br.above # None

\* Branch.grow_leaf: the branches after the call, the new leaf being `leaf`
grow_leaf(bs, b, leaf) == [bs EXCEPT ![b].leaves = Append(@, leaf)]

(* ---------------- Scene ---------------- *)
\* Scene.__init__
InitBranches == << NewBranch(None, ROOT_RADIUS, HeightSteps, DepthOf(<<>>, None)) >>
InitRenderables ==
    << [key |-> OBJECT_BRANCH, list |-> << Ref(OBJECT_BRANCH, 1) >>] >>

\* Scene.__init__: the camera's eulers = [0,0,0] (roll, pitch, yaw)
InitCamera == [eulers |-> <<0, 0, 0>>]

\* eulers[1] and eulers[2] of the source, whose indices start at 0
Pitch(cam) == cam.eulers[2]
Yaw(cam) == cam.eulers[3]

\* Scene.spin_camera: the if/elif on eulers[2]
WrapYaw(yaw) ==
    IF yaw < 0 THEN yaw + 360
    ELSE IF yaw > 360 THEN yaw - 360
    ELSE yaw

\* variant of Scene.spin_camera that bounds the pitch from below only
ClampPitch_NoUpperBound(pitch) == IF pitch > -89 THEN pitch ELSE -89

\* Scene.spin_camera: min(89, max(-89, eulers[1]))
ClampPitch(pitch) ==
    LET lower == IF pitch > -89 THEN pitch ELSE -89
    IN  IF lower < 89 THEN lower ELSE 89

\* Scene.spin_camera: the camera after the call
spin_camera(cam, dEulers) ==
    [cam EXCEPT !.eulers = << @[1] + dEulers[1],
                              ClampPitch(@[2] + dEulers[2]),
                              WrapYaw(@[3] + dEulers[3]) >>]

\* the dEulers the calls are made with: [0, phi_increment, theta_increment]
PitchDeltas == {-100, -10, 0, 10, 85}
YawDeltas == {-400, -10, 0, 10, 350}
SpinDeltas == { <<0, dp, dy>> : dp \in PitchDeltas, dy \in YawDeltas }
NoSpin == [n |-> 0, dEulers |-> <<0, 0, 0>>]

\* entity.objectType in self.renderables
HasKey(reg, k) == \E i \in 1 .. Len(reg) : reg[i].key = k
KeyIndex(reg, k) == CHOOSE i \in 1 .. Len(reg) : reg[i].key = k

\* e in self.renderables[k], and the position list.remove finds it at
InList(list, e) == \E i \in 1 .. Len(list) : list[i] = e
FirstIndex(list, e) ==
    CHOOSE i \in 1 .. Len(list) :
        list[i] = e /\ \A j \in 1 .. i - 1 : list[j] # e

\* list.remove(e), e being in the list
ListRemove(list, e) ==
    LET i == FirstIndex(list, e)
    IN  SubSeq(list, 1, i - 1) \o SubSeq(list, i + 1, Len(list))

\* variant of the EVENT_NEW branch that inserts the entity at the front
AddEntity_AtFront(reg, e) ==
    IF HasKey(reg, e.objectType)
    THEN [reg EXCEPT ![KeyIndex(reg, e.objectType)].list = << e >> \o @]
    ELSE Append(reg, [key |-> e.objectType, list |-> << e >>])

\* variant of the EVENT_NEW branch that appends the entity twice
AddEntity_Twice(reg, e) ==
    IF HasKey(reg, e.objectType)
    THEN [reg EXCEPT ![KeyIndex(reg, e.objectType)].list = Append(Append(@, e), e)]
    ELSE Append(reg, [key |-> e.objectType, list |-> << e, e >>])

\* the EVENT_NEW branch of the second loop of Scene.update
AddEntity(reg, e) ==
    IF HasKey(reg, e.objectType)
    THEN [reg EXCEPT ![KeyIndex(reg, e.objectType)].list = Append(@, e)]
    ELSE Append(reg, [key |-> e.objectType, list |-> << e >>])

\* the EVENT_DEL branch: the exception self.renderables[k].remove(e) raises
RemoveRaises(reg, e) ==
    IF ~HasKey(reg, e.objectType) THEN "KeyError"
    ELSE IF ~InList(reg[KeyIndex(reg, e.objectType)].list, e) THEN "ValueError"
    ELSE "none"

\* variant of the EVENT_DEL branch that leaves the entity in its bucket
RemoveEntity_KeepsEntity(reg, e) == reg

\* the EVENT_DEL branch when nothing is raised
RemoveEntity(reg, e) ==
    [reg EXCEPT ![KeyIndex(reg, e.objectType)].list = ListRemove(@, e)]

\* the registry after one event is applied
ApplyOne(reg, ev) ==
    IF ev.type = EVENT_NEW THEN AddEntity(reg, ev.data)
    ELSE IF ev.type = EVENT_DEL /\ RemoveRaises(reg, ev.data) = "none"
         THEN RemoveEntity(reg, ev.data)
         ELSE reg

\* the object the traversal stands at
HasCur ==
    /\ bi <= Len(renderables)
    /\ oi <= Len(renderables[bi].list)
Cur == renderables[bi].list[oi]

\* variant of Scene.update that applies an event as soon as it is returned
Collect_ApplyAtOnce(ev) ==
    /\ events' = Append(events, ev)
    /\ renderables' = IF ev.type = EVENT_NEW THEN AddEntity(renderables, ev.data)
                      ELSE RemoveEntity(renderables, ev.data)

\* if event: events.append(event)   (first loop; the registry is not touched)
Collect(ev) ==
    /\ events' = Append(events, ev)
    /\ renderables' = renderables

\* object.update returned None
CollectNothing ==
    /\ events' = events
    /\ renderables' = renderables

\* variant of Branch.update that goes on to attempt_split after an extension
AfterExtend_NoReturn(fired) == "split"

\* Branch.update: if self.attempt_extend(): return ...   (the next phase)
AfterExtend(fired) == IF fired THEN "none" ELSE "split"

\* variant of Branch.update that goes on to attempt_grow_leaf after a split
AfterSplit_NoReturn(fired) == "leaf"

\* Branch.update: if self.attempt_split(): return ...   (the next phase)
AfterSplit(fired) == IF fired THEN "none" ELSE "leaf"

\* history records of a new branch and of a new leaf
NewBLog ==
    [grewAt |-> 0, grewRadius |-> 0, aboveAt |-> 0, nAbove |-> 0,
     splitAt |-> 0, nSplit |-> 0, resets |-> 0, leafAt |-> 0]
NewLLog == [fallAge |-> 0, fallAt |-> 0, since |-> 0, dels |-> 0]

Init ==
    /\ branchObjs = InitBranches
    /\ leafObjs = <<>>
    /\ renderables = InitRenderables
    /\ events = <<>>
    /\ pc = "idle"
    /\ bi = 1
    /\ oi = 1
    /\ ei = 1
    /\ phase = "none"
    /\ error = "none"
    /\ tick = 0
    /\ visited = <<>>
    /\ startReg = InitRenderables
    /\ startObjs = [branches |-> InitBranches, leafs |-> <<>>]
    /\ camera = InitCamera
    /\ spins = NoSpin
    /\ bLog = << NewBLog >>
    /\ lLog = <<>>
    /\ shed = None

\* Scene.update is called: events = []
BeginUpdate ==
    /\ pc = "idle"
    /\ tick < MaxTicks
    /\ pc' = "traverse"
    /\ events' = <<>>
    /\ bi' = 1
    /\ oi' = 1
    /\ tick' = tick + 1
    /\ visited' = <<>>
    /\ startReg' = renderables
    /\ startObjs' = [branches |-> branchObjs, leafs |-> leafObjs]
    /\ UNCHANGED <<branchObjs, leafObjs, renderables, ei, phase, error,
                   bLog, lLog, shed, camera, spins>>

\* Branch.update, first statement: self.attempt_grow_wider()
BranchGrowWider ==
    /\ pc = "traverse" /\ phase = "none" /\ HasCur
    /\ Cur.objectType = OBJECT_BRANCH
    /\ LET b == Cur.id
           l == WiderShed(branchObjs, b)
       IN  /\ branchObjs' = WiderBranches(branchObjs, b)
           /\ leafObjs' = IF l # None
                          THEN [leafObjs EXCEPT ![l] = fall_off(@)]
                          ELSE leafObjs
           /\ lLog' = IF l # None
                      THEN [lLog EXCEPT ![l].fallAge = leafObjs[l].age,
                                        ![l].fallAt = tick]
                      ELSE lLog
           /\ shed' = l
    /\ phase' = "extend"
    /\ visited' = Append(visited, Cur)
    /\ UNCHANGED <<renderables, events, pc, bi, oi, ei, error, tick,
                   startReg, startObjs, camera, spins, bLog>>

\* Branch.update: if self.attempt_extend(): return Event(EVENT_NEW, self.above)
BranchExtend ==
    /\ pc = "traverse" /\ phase = "extend"
    /\ LET b  == Cur.id
           br == branchObjs[b]
       IN  /\ branchObjs' = attempt_extend(branchObjs, b)
           /\ phase' = AfterExtend(ExtendFires(br))
           /\ oi' = IF phase' = "none" THEN oi + 1 ELSE oi
           /\ IF ExtendFires(br)
              THEN /\ Collect(Event(EVENT_NEW, Ref(OBJECT_BRANCH, branchObjs'[b].above)))
                   /\ bLog' = Append([bLog EXCEPT ![b].aboveAt = tick,
                                                  ![b].nAbove = @ + 1], NewBLog)
              ELSE /\ CollectNothing
                   /\ bLog' = IF br.height < HeightSteps
                                 /\ branchObjs'[b].height >= HeightSteps
                              THEN [bLog EXCEPT ![b].grewAt = tick,
                                                ![b].grewRadius = br.radius]
                              ELSE bLog
    /\ UNCHANGED <<leafObjs, pc, bi, ei, error, tick, visited, startReg,
                   startObjs, camera, spins, lLog, shed>>

\* Branch.update: if self.attempt_split(): return Event(EVENT_NEW, self.split)
BranchSplit ==
    /\ pc = "traverse" /\ phase = "split"
    /\ \E r \in RandomDraws :
        LET b  == Cur.id
            br == branchObjs[b]
        IN  /\ branchObjs' = attempt_split(branchObjs, b, r)
            /\ phase' = AfterSplit(SplitFires(br, r))
            /\ oi' = IF phase' = "none" THEN oi + 1 ELSE oi
            /\ IF SplitFires(br, r)
               THEN /\ Collect(Event(EVENT_NEW, Ref(OBJECT_BRANCH, branchObjs'[b].split)))
                    /\ bLog' = Append([bLog EXCEPT ![b].splitAt = tick,
                                                   ![b].nSplit = @ + 1], NewBLog)
               ELSE /\ CollectNothing
                    /\ bLog' = IF br.split = Rejected
                                  /\ branchObjs'[b].split = None
                               THEN [bLog EXCEPT ![b].resets = @ + 1]
                               ELSE bLog
    /\ UNCHANGED <<leafObjs, pc, bi, ei, error, tick, visited, startReg,
                   startObjs, camera, spins, lLog, shed>>

\* Branch.update: if self.attempt_grow_leaf(): return Event(EVENT_NEW, self.leaves[-1])
BranchGrowLeaf ==
    /\ pc = "traverse" /\ phase = "leaf"
    /\ LET b  == Cur.id
           br == branchObjs[b]
           l  == Len(leafObjs) + 1
       IN  IF LeafCheckRaises(br)
           THEN /\ error' = "ZeroDivisionError"
                /\ pc' = "raised"
                /\ phase' = "none"
                /\ CollectNothing
                /\ UNCHANGED <<branchObjs, leafObjs, oi, lLog, bLog>>
           ELSE IF LeafFires(br)
           THEN /\ branchObjs' = grow_leaf(branchObjs, b, l)
                /\ leafObjs' = Append(leafObjs, NewLeaf(b))
                /\ lLog' = Append(lLog, NewLLog)
                /\ Collect(Event(EVENT_NEW, Ref(OBJECT_LEAF, l)))
                /\ phase' = "none"
                /\ oi' = oi + 1
                /\ bLog' = [bLog EXCEPT ![b].leafAt = tick]
                /\ UNCHANGED <<pc, error>>
           ELSE /\ CollectNothing
                /\ phase' = "none"
                /\ oi' = oi + 1
                /\ UNCHANGED <<branchObjs, leafObjs, lLog, bLog, pc, error>>
    /\ UNCHANGED <<bi, ei, tick, visited, startReg, startObjs, camera, spins,
                   shed>>

\* Leaf.update, called from the first loop of Scene.update
LeafUpdate ==
    /\ pc = "traverse" /\ phase = "none" /\ HasCur
    /\ Cur.objectType = OBJECT_LEAF
    /\ LET l == Cur.id
           leaf == leafObjs[l]
       IN  /\ leafObjs' = [leafObjs EXCEPT ![l] = LeafAfterUpdate(leaf)]
           /\ IF LeafReturnsDel(leaf)
              THEN Collect(Event(EVENT_DEL, Cur))
              ELSE CollectNothing
           /\ lLog' = [lLog EXCEPT
                         ![l].since = IF leaf.dying THEN @ + 1 ELSE @,
                         ![l].dels = IF LeafReturnsDel(leaf) THEN @ + 1 ELSE @]
    /\ oi' = oi + 1
    /\ visited' = Append(visited, Cur)
    /\ UNCHANGED <<branchObjs, pc, bi, ei, phase, error, tick, startReg,
                   startObjs, camera, spins, bLog, shed>>

\* the inner for loop of the first loop is exhausted: next bucket of the dict
NextBucket ==
    /\ pc = "traverse" /\ phase = "none"
    /\ bi <= Len(renderables)
    /\ oi > Len(renderables[bi].list)
    /\ bi' = bi + 1
    /\ oi' = 1
    /\ UNCHANGED <<branchObjs, leafObjs, renderables, events, pc, ei, phase,
                   error, tick, visited, startReg, startObjs, camera, spins,
                   bLog, lLog, shed>>

\* the first loop is exhausted: for event in events
EndTraversal ==
    /\ pc = "traverse" /\ phase = "none"
    /\ bi > Len(renderables)
    /\ pc' = "apply"
    /\ ei' = 1
    /\ UNCHANGED <<branchObjs, leafObjs, renderables, events, bi, oi, phase,
                   error, tick, visited, startReg, startObjs, camera, spins,
                   bLog, lLog, shed>>

\* one iteration of the second loop of Scene.update
ApplyEvent ==
    /\ pc = "apply"
    /\ ei <= Len(events)
    /\ LET ev == events[ei]
           raised == IF ev.type = EVENT_DEL
                     THEN RemoveRaises(renderables, ev.data) ELSE "none"
       IN  /\ renderables' = ApplyOne(renderables, ev)
           /\ error' = raised
           /\ pc' = IF raised = "none" THEN "apply" ELSE "raised"
    /\ ei' = ei + 1
    /\ UNCHANGED <<branchObjs, leafObjs, events, bi, oi, phase, tick,
                   visited, startReg, startObjs, camera, spins, bLog, lLog, shed>>

\* the second loop is exhausted: self.camera.update(), and the call returns
EndUpdate ==
    /\ pc = "apply"
    /\ ei > Len(events)
    /\ pc' = "idle"
    /\ UNCHANGED <<branchObjs, leafObjs, renderables, events, bi, oi, ei,
                   phase, error, tick, visited, startReg, startObjs, camera,
                   spins, bLog, lLog, shed>>

Next ==
    \/ BeginUpdate
    \/ BranchGrowWider
    \/ BranchExtend
    \/ BranchSplit
    \/ BranchGrowLeaf
    \/ LeafUpdate
    \/ NextBucket
    \/ EndTraversal
    \/ ApplyEvent
    \/ EndUpdate

Spec == Init /\ [][Next]_vars

(* ---------------- the camera ---------------- *)
\* Scene.spin_camera, called by the main loop between two Scene.update calls
SpinCamera ==
    /\ pc = "idle"
    /\ spins.n < MaxSpins
    /\ \E dEulers \in SpinDeltas :
          /\ camera' = spin_camera(camera, dEulers)
          /\ spins' = [n |-> spins.n + 1, dEulers |-> dEulers]
    /\ UNCHANGED <<branchObjs, leafObjs, renderables, events, pc, bi, oi, ei,
                   phase, error, tick, visited, startReg, startObjs,
                   bLog, lLog, shed>>

NextCamera == SpinCamera

\* the scene as constructed, under spin_camera calls alone
SpecCamera == Init /\ [][NextCamera]_vars

(* ---------------- helpers of the properties ---------------- *)
BranchIds == 1 .. Len(branchObjs)
LeafIds == 1 .. Len(leafObjs)

RECURSIVE Flatten(_)
\* the objects of a registry in the order the first loop visits them
Flatten(reg) ==
    IF reg = <<>> THEN <<>> ELSE Head(reg).list \o Flatten(Tail(reg))

NoDup(s) == \A i, j \in 1 .. Len(s) : s[i] = s[j] => i = j
IsPrefix(s, t) == Len(s) <= Len(t) /\ SubSeq(t, 1, Len(s)) = s
Elems(s) == { s[i] : i \in 1 .. Len(s) }

\* the first loop stands at branch b / leaf l and is about to call its update
AboutToUpdateBranch(b) ==
    /\ pc = "traverse" /\ phase = "none" /\ HasCur
    /\ Cur = Ref(OBJECT_BRANCH, b)
AboutToUpdateLeaf(l) ==
    /\ pc = "traverse" /\ phase = "none" /\ HasCur
    /\ Cur = Ref(OBJECT_LEAF, l)

(* ---------------- C1 ---------------- *)
\* C1: two-phase isolation of Scene.update.  While the first loop runs, the
\* registry is the one the tick started with and the objects updated so far
\* are a prefix of its contents; when the loop has finished, the objects
\* updated are exactly the contents at the start of the tick, each once,
\* whatever Spawn and Remove events were returned.
C1_TwoPhaseIsolation ==
    /\ pc = "traverse" =>
          /\ renderables = startReg
          /\ IsPrefix(visited, Flatten(startReg))
    /\ (pc \in {"apply", "idle"} /\ tick > 0) => visited = Flatten(startReg)
    /\ NoDup(visited)

\* a traversal has finished in which both Spawn and Remove events were returned
C1_Witness ==
    /\ pc = "apply" /\ ei = 1
    /\ \E i, j \in 1 .. Len(events) :
          events[i].type = EVENT_NEW /\ events[j].type = EVENT_DEL
    /\ visited = Flatten(startReg)
    /\ Len(visited) >= 3

(* ---------------- C2 ---------------- *)
\* C2: once `above` holds a child branch it is never reassigned, once `split`
\* holds a child branch it is never reassigned nor reset to None or to the
\* rejected sentinel, and every branch returns Spawn(above) at most once and
\* Spawn(split) at most once.
C2_OneShot ==
    /\ [][\A b \in BranchIds :
            /\ branchObjs[b].above # None =>
                  branchObjs'[b].above = branchObjs[b].above
            /\ branchObjs[b].split > 0 =>
                  branchObjs'[b].split = branchObjs[b].split]_vars
    /\ [](\A b \in BranchIds : bLog[b].nAbove <= 1 /\ bLog[b].nSplit <= 1)

\* a branch that has had both children for at least two whole ticks
C2_Witness ==
    \E b \in BranchIds :
        /\ branchObjs[b].above # None /\ branchObjs[b].split > 0
        /\ bLog[b].nAbove = 1 /\ bLog[b].nSplit = 1
        /\ \A c \in {branchObjs[b].above, branchObjs[b].split} :
              branchObjs[c].height >= HeightSteps

(* ---------------- C3 ---------------- *)
\* C3: the root has depth 1, every other branch is the `above` or the `split`
\* child of its parent and has its parent's depth plus one, and the depth of
\* a branch never changes.
C3_Depth ==
    /\ [](\A b \in BranchIds :
            IF branchObjs[b].parent = None
            THEN b = 1 /\ branchObjs[b].depth = 1
            ELSE LET p == branchObjs[b].parent
                 IN  /\ p \in BranchIds
                     /\ b \in {branchObjs[p].above, branchObjs[p].split}
                     /\ branchObjs[b].depth = branchObjs[p].depth + 1)
    /\ [][\A b \in BranchIds : branchObjs'[b].depth = branchObjs[b].depth]_vars

\* a tree with an `above` child and a `split` child below the second level
C3_Witness ==
    \E b, c \in BranchIds :
        /\ branchObjs[b].depth >= 3 /\ branchObjs[c].depth >= 3
        /\ branchObjs[branchObjs[b].parent].above = b
        /\ branchObjs[branchObjs[c].parent].split = c
        /\ pc = "idle"

(* ---------------- C4 ---------------- *)
\* C4: a leaf on which fall_off() was called at age a >= 1 has returned a
\* Remove event exactly when it has been updated a times since, and then
\* exactly one; a leaf on which fall_off() was not called has returned none.
C4_RemoveOnAgeZero ==
    \A l \in LeafIds :
        /\ leafObjs[l].dying <=> lLog[l].fallAge >= 1
        /\ lLog[l].dels = IF lLog[l].fallAge >= 1 /\ lLog[l].since >= lLog[l].fallAge
                          THEN 1 ELSE 0

\* a leaf that fell at age two or more and has returned its Remove event,
\* while another fallen leaf is still decaying
C4_Witness ==
    \E l, m \in LeafIds :
        /\ lLog[l].fallAge >= 2 /\ lLog[l].since = lLog[l].fallAge
        /\ lLog[l].dels = 1
        /\ lLog[m].fallAge >= 2 /\ lLog[m].since >= 1
        /\ lLog[m].since < lLog[m].fallAge /\ lLog[m].dels = 0

(* ---------------- C5 ---------------- *)
\* C5: a Leaf.update changes the age by +1 when dying is false and by -1 when
\* dying is true; dying never goes back from true to false; and dying becomes
\* true only in the attempt_grow_wider of the owning branch, which calls
\* fall_off() on the leaf.
C5_LeafAge ==
    [][\A l \in LeafIds :
          /\ AboutToUpdateLeaf(l) =>
                leafObjs'[l].age = leafObjs[l].age
                                     + (IF leafObjs[l].dying THEN -1 ELSE 1)
          /\ leafObjs[l].dying => leafObjs'[l].dying
          /\ (~leafObjs[l].dying /\ leafObjs'[l].dying) =>
                /\ AboutToUpdateBranch(leafObjs[l].branch)
                /\ shed' = l
          /\ ~AboutToUpdateLeaf(l) => leafObjs'[l].age = leafObjs[l].age]_vars

\* a dying leaf that has already lost age, beside a leaf that is still growing
C5_Witness ==
    \E l, m \in LeafIds :
        /\ leafObjs[l].dying /\ leafObjs[l].age < lLog[l].fallAge
        /\ leafObjs[l].age >= 1
        /\ ~leafObjs[m].dying /\ leafObjs[m].age >= 3

(* ---------------- C6 ---------------- *)
\* the Branch.update of b in the current tick has returned
UpdateReturned(b) ==
    /\ Ref(OBJECT_BRANCH, b) \in Elems(visited)
    /\ (phase = "none" \/ Cur # Ref(OBJECT_BRANCH, b))

\* b grew from below height 1 to height 1 with radius > MIN_EXTEND_RADIUS
\* and depth < MAX_DEPTH (and, being below height 1, without `above`)
GrewEligible(b) ==
    /\ bLog[b].grewAt # 0
    /\ bLog[b].grewRadius > MIN_EXTEND_RADIUS
    /\ branchObjs[b].depth < MAX_DEPTH

\* C6 as stated: for such a branch the Spawn(above) event is returned by the
\* Branch.update call in which the height reaches 1.
C6_SpawnInGrowingUpdate ==
    \A b \in BranchIds :
        (GrewEligible(b) /\ (tick > bLog[b].grewAt \/ UpdateReturned(b)))
            => bLog[b].aboveAt = bLog[b].grewAt

\* C6 amended: the Branch.update call in which the height reaches 1 returns
\* no Spawn(above) and leaves `above` unset; the Spawn(above) event is
\* returned by the branch's next Branch.update call, one tick later.
C6_SpawnInNextUpdate ==
    \A b \in BranchIds :
        GrewEligible(b) =>
            /\ bLog[b].aboveAt # bLog[b].grewAt
            /\ tick = bLog[b].grewAt =>
                  branchObjs[b].above = None /\ bLog[b].aboveAt = 0
            /\ (\/ tick > bLog[b].grewAt + 1
                \/ tick = bLog[b].grewAt + 1 /\ UpdateReturned(b)) =>
                  /\ bLog[b].aboveAt = bLog[b].grewAt + 1
                  /\ branchObjs[b].above # None

\* a branch that grew to height 1 in one tick and returned Spawn(above) in the next
C6_Witness ==
    \E b \in BranchIds :
        /\ GrewEligible(b)
        /\ bLog[b].aboveAt = bLog[b].grewAt + 1
        /\ branchObjs[b].above # None

(* ---------------- C7 ---------------- *)
\* C7: a branch whose height is below 1 has no `above` child.
C7_NoAboveWhileJuvenile ==
    \A b \in BranchIds :
        branchObjs[b].height < HeightSteps => branchObjs[b].above = None

\* a juvenile branch that has been updated and that the radius and depth
\* conditions would let extend
C7_Witness ==
    \E b \in BranchIds :
        /\ branchObjs[b].height >= 1 /\ branchObjs[b].height < HeightSteps
        /\ branchObjs[b].radius > MIN_EXTEND_RADIUS
        /\ branchObjs[b].depth < MAX_DEPTH
        /\ branchObjs[b].above = None

(* ---------------- C8 ---------------- *)
\* C8: right after the attempt_grow_wider of a branch, its split child (if it
\* is a branch) has radius = radius x BRANCH_SPLIT_RADIUS and its above child
\* (if any) has radius = radius x BRANCH_TOP_RADIUS; no other object's radius
\* is written and nothing is raised, in particular when split is the
\* rejected sentinel.
C8_RadiusPropagation ==
    [][\A b \in BranchIds :
          AboutToUpdateBranch(b) =>
             LET br == branchObjs'[b]
                 kids == (IF br.split > 0 THEN {br.split} ELSE {})
                            \cup (IF br.above # None THEN {br.above} ELSE {})
             IN  /\ phase' = "extend"
                 /\ error' = "none"
                 /\ br.split > 0 =>
                       branchObjs'[br.split].radius * BRANCH_SPLIT_RADIUS[2]
                          = br.radius * BRANCH_SPLIT_RADIUS[1]
                 /\ br.above # None =>
                       branchObjs'[br.above].radius * BRANCH_TOP_RADIUS[2]
                          = br.radius * BRANCH_TOP_RADIUS[1]
                 /\ DOMAIN branchObjs' = DOMAIN branchObjs
                 /\ \A c \in BranchIds \ ({b} \cup kids) :
                       branchObjs'[c].radius = branchObjs[c].radius]_vars

\* attempt_grow_wider has just run on a branch with both children, and on
\* an earlier branch of this tick whose split is the rejected sentinel
C8_Witness ==
    /\ phase = "extend"
    /\ branchObjs[Cur.id].split > 0
    /\ branchObjs[Cur.id].above # None
    /\ branchObjs[branchObjs[Cur.id].split].radius > 0
    /\ \E e \in Elems(visited) :
          /\ e.objectType = OBJECT_BRANCH
          /\ branchObjs[e.id].split = Rejected
          /\ branchObjs[e.id].above # None

(* ---------------- C9 ---------------- *)
\* C9: a Branch.update whose radius, after the root increment, exceeds
\* LEAF_GROWING_MAX_RADIUS while the branch holds a leaf detaches exactly one
\* of its leaves and sets that leaf's dying flag, touching no other leaf; and
\* that update creates no leaf and returns no Spawn event for a leaf.
C9_ShedAndNoNewLeaf ==
    [][/\ \A b \in BranchIds :
            (/\ AboutToUpdateBranch(b)
             /\ branchObjs'[b].radius > LEAF_GROWING_MAX_RADIUS
             /\ Len(branchObjs[b].leaves) >= 1) =>
                \E l \in Elems(branchObjs[b].leaves) :
                    /\ ~leafObjs[l].dying /\ leafObjs'[l].dying
                    /\ shed' = l
                    /\ Len(branchObjs'[b].leaves) = Len(branchObjs[b].leaves) - 1
                    /\ Elems(branchObjs'[b].leaves)
                          = Elems(branchObjs[b].leaves) \ {l}
                    /\ \A m \in LeafIds \ {l} : leafObjs'[m] = leafObjs[m]
       /\ (phase # "none" /\ shed # None) =>
             /\ leafObjs' = leafObjs
             /\ branchObjs'[Cur.id].leaves = branchObjs[Cur.id].leaves
             /\ \/ events' = events
                \/ events'[Len(events')].data.objectType # OBJECT_LEAF]_vars

\* a branch that has just shed a leaf, still holds others, and has come to
\* its attempt_grow_leaf
C9_Witness ==
    /\ phase = "leaf"
    /\ shed # None
    /\ leafObjs[shed].dying
    /\ Len(branchObjs[Cur.id].leaves) >= 1
    /\ branchObjs[Cur.id].above # None

(* ---------------- C10 ---------------- *)
\* The second loop of Scene.update as a function of the registry and of the
\* event list it is given: any registry over two leaves, any list of at most
\* MaxApplyEvents events about them.
MaxApplyLeaves == 2
MaxApplyEvents == 2

ApplyLeafRefs == { Ref(OBJECT_LEAF, l) : l \in 1 .. MaxApplyLeaves }

RECURSIVE SeqsUpTo(_, _)
SeqsUpTo(S, n) ==
    IF n = 0 THEN { <<>> }
    ELSE LET shorter == SeqsUpTo(S, n - 1)
         IN  shorter \cup { Append(q, x) : q \in shorter, x \in S }

ApplyLeafLists == { q \in SeqsUpTo(ApplyLeafRefs, MaxApplyLeaves) : NoDup(q) }

ApplyRegistries ==
    { InitRenderables }
      \cup { Append(InitRenderables, [key |-> OBJECT_LEAF, list |-> q]) :
                q \in ApplyLeafLists }

ApplyEvents ==
    { Event(t, e) : t \in {EVENT_NEW, EVENT_DEL}, e \in ApplyLeafRefs }

InitApply ==
    /\ branchObjs = InitBranches
    /\ leafObjs = [l \in 1 .. MaxApplyLeaves |-> NewLeaf(1)]
    /\ renderables \in ApplyRegistries
    /\ events \in SeqsUpTo(ApplyEvents, MaxApplyEvents) \ { <<>> }
    /\ pc = "apply"
    /\ bi = 1
    /\ oi = 1
    /\ ei = 1
    /\ phase = "none"
    /\ error = "none"
    /\ tick = 1
    /\ visited = <<>>
    /\ startReg = renderables
    /\ startObjs = [branches |-> branchObjs, leafs |-> leafObjs]
    /\ camera = InitCamera
    /\ spins = NoSpin
    /\ bLog = << NewBLog >>
    /\ lLog = [l \in 1 .. MaxApplyLeaves |-> NewLLog]
    /\ shed = None

NextApply ==
    \/ ApplyEvent
    \/ EndUpdate

SpecApply == InitApply /\ [][NextApply]_vars

\* e is in no bucket of the registry under its type
Absent(reg, e) ==
    ~ \E i \in 1 .. Len(reg) :
          reg[i].key = e.objectType /\ e \in Elems(reg[i].list)

C11_YawInRange == Yaw(camera) >= 0 /\ Yaw(camera) < 360

(* ---------------- C12 ---------------- *)
\* C12: after any spin_camera call the pitch lies in [-89, 89]; a call with
\* pitch delta 10 on a camera whose pitch is 85 leaves the pitch at 89.
C12_PitchClamped ==
    /\ [](Pitch(camera) >= -89 /\ Pitch(camera) <= 89)
    /\ [][(/\ Pitch(camera) = 85
           /\ spins'.n = spins.n + 1
           /\ spins'.dEulers[2] = 10) => Pitch(camera') = 89]_vars

\* the pitch went to 85 in a first call and a second call added 10 to it
C12_Witness ==
    /\ spins.n = 2
    /\ spins.dEulers[2] = 10
    /\ Pitch(camera) = 89

(* ---------------- C13 ---------------- *)
\* the main loop keeps calling Scene.update, and every call runs to its end
SpecFair == Spec /\ WF_vars(Next)

InLeafBucket(l) == ~Absent(renderables, Ref(OBJECT_LEAF, l))
Fallen(l) == l \in LeafIds /\ leafObjs[l].dying
Decayed(l) == Fallen(l) /\ leafObjs[l].age = 0
\* fall_off() was called on l at age a in update t, and the updates
\* t .. t + a - 1 in which the age decays to 0 are among the MaxTicks updates
Due(l) ==
    /\ lLog[l].fallAge >= 1
    /\ lLog[l].fallAt + lLog[l].fallAge - 1 <= MaxTicks

\* C13: every leaf on which fall_off() was called is eventually out of the
\* leaf bucket, for good, when the updates in which its age decays are made
\* (the updates stop after MaxTicks, so that from some point on every leaf
\* that was due is out); a fallen leaf is in the bucket while its age is
\* above 0 and out of it when the update in which the age reached 0 has
\* returned; from then on it is never updated and never put back.
C13_FallenLeafRemoved ==
    /\ <>[](\A l \in LeafIds : Due(l) => (Decayed(l) /\ ~InLeafBucket(l)))
    /\ [](\A l \in LeafIds :
            /\ (Fallen(l) /\ leafObjs[l].age > 0) => InLeafBucket(l)
            /\ (Decayed(l) /\ pc = "idle") => ~InLeafBucket(l))
    /\ [][\A l \in LeafIds :
            Decayed(l) =>
               /\ leafObjs'[l] = leafObjs[l]
               /\ ~InLeafBucket(l) => ~InLeafBucket(l)']_vars

\* a leaf that fell at age two or more is out of the bucket, its age 0, and
\* updates are still to come
C13_Witness ==
    \E l \in LeafIds :
        /\ Due(l) /\ Decayed(l) /\ ~InLeafBucket(l)
        /\ lLog[l].fallAge >= 2
        /\ pc = "idle" /\ tick < MaxTicks

(* ---------------- C14 ---------------- *)
\* C14: when attempt_grow_wider detaches a leaf from a branch that holds
\* several leaves, the leaf fall_off() is called on is the first element of
\* the branch's leaf list, the oldest-appended one.
C14_ShedsOldest ==
    [][\A b \in BranchIds :
          (/\ AboutToUpdateBranch(b)
           /\ Len(branchObjs[b].leaves) >= 2
           /\ shed' # None) => shed' = branchObjs[b].leaves[1]]_vars

(* ---------------- C15 ---------------- *)
\* b has no split child before the step and has one after it
AcquiresSplit(b) == branchObjs[b].split <= 0 /\ branchObjs'[b].split > 0

\* C15 as stated: a branch acquires a split child, and returns Spawn(split),
\* only when its height has reached 1.
C15_NoSplitWhileJuvenile ==
    [][\A b \in BranchIds :
          AcquiresSplit(b) => branchObjs'[b].height >= HeightSteps]_vars

\* C15 amended: a branch acquires a split child only in a Branch.update whose
\* attempt_extend returned False, that is, one that created no `above` child
\* and returned no Spawn(above); the step is the attempt_split of that
\* update and returns Spawn(split).  The height is not constrained: the
\* update may be one of the juvenile phase.
C15_SplitOnlyAfterExtendFailed ==
    [][\A b \in BranchIds :
          AcquiresSplit(b) =>
             /\ phase = "split" /\ Cur = Ref(OBJECT_BRANCH, b)
             /\ bLog[b].aboveAt # tick
             /\ branchObjs'[b].above = branchObjs[b].above
             /\ branchObjs'[b].height = branchObjs[b].height
             /\ events' = Append(events, Event(EVENT_NEW,
                              Ref(OBJECT_BRANCH, branchObjs'[b].split)))]_vars

\* a branch whose height is below 1 has a split child, acquired in an update
\* that grew the height
C15_Witness ==
    \E b \in BranchIds :
        /\ branchObjs[b].split > 0
        /\ bLog[b].splitAt = tick
        /\ branchObjs[b].height >= 1
        /\ branchObjs[b].height < HeightSteps
        /\ branchObjs[b].above = None

(* ---------------- C16 ---------------- *)
\* C16 as stated: when the update of an entity begins, every field of the
\* entity has the value it had when the tick started.
C16_ObservesStartOfTick ==
    /\ \A b \in BranchIds :
          AboutToUpdateBranch(b) =>
             /\ b <= Len(startObjs.branches)
             /\ branchObjs[b] = startObjs.branches[b]
    /\ \A l \in LeafIds :
          AboutToUpdateLeaf(l) =>
             /\ l <= Len(startObjs.leafs)
             /\ leafObjs[l] = startObjs.leafs[l]

\* C16 amended: when the update of an entity begins, the entity existed at
\* the start of the tick and its fields have the values they had then, but
\* for two: the radius of a branch, which differs only if the parent's
\* update has run earlier in this tick, and the dying flag of a leaf, which
\* differs only if fall_off() was called on the leaf in this tick.
C16_OnlyRadiusAndDyingObserved ==
    /\ \A b \in BranchIds :
          AboutToUpdateBranch(b) =>
             /\ b <= Len(startObjs.branches)
             /\ [branchObjs[b] EXCEPT !.radius = startObjs.branches[b].radius]
                   = startObjs.branches[b]
             /\ branchObjs[b].radius # startObjs.branches[b].radius =>
                   /\ branchObjs[b].parent # None
                   /\ Ref(OBJECT_BRANCH, branchObjs[b].parent) \in Elems(visited)
    /\ \A l \in LeafIds :
          AboutToUpdateLeaf(l) =>
             /\ l <= Len(startObjs.leafs)
             /\ [leafObjs[l] EXCEPT !.dying = startObjs.leafs[l].dying]
                   = startObjs.leafs[l]
             /\ leafObjs[l].dying # startObjs.leafs[l].dying =>
                   /\ leafObjs[l].dying
                   /\ lLog[l].fallAt = tick

\* the update of a leaf detached in this tick is about to begin, and the
\* update of a branch has run in this tick on a radius its parent had set
\* in this tick
C16_Witness ==
    /\ \E l \in LeafIds :
          /\ AboutToUpdateLeaf(l)
          /\ leafObjs[l].dying /\ ~startObjs.leafs[l].dying
    /\ \E b \in 2 .. Len(startObjs.branches) :
          /\ Ref(OBJECT_BRANCH, b) \in Elems(visited)
          /\ branchObjs[b].radius # startObjs.branches[b].radius
          /\ startObjs.branches[b].height >= HeightSteps

(* ---------------- C17 ---------------- *)
\* the events of the current tick that announce a child of branch b
SpawnsOf(b) ==
    { i \in 1 .. Len(events) :
        /\ events[i].type = EVENT_NEW
        /\ IF events[i].data.objectType = OBJECT_BRANCH
           THEN branchObjs[events[i].data.id].parent = b
           ELSE leafObjs[events[i].data.id].branch = b }

\* C17: a Branch.update returns at most one event: Spawn(above) if its
\* attempt_extend created the `above` child, and then attempt_split is not
\* called; otherwise Spawn(split) if attempt_split created the split child,
\* and then attempt_grow_leaf is not called; otherwise Spawn(leaf) if
\* attempt_grow_leaf appended a leaf; otherwise nothing.  So in one tick at
\* most one of above, split and leaves of a branch gains a child.
C17_OneEventByPriority ==
    /\ [](\A b \in BranchIds :
            /\ pc \in {"traverse", "apply"} => Cardinality(SpawnsOf(b)) <= 1
            /\ tick > 0 =>
                  Cardinality({ k \in {"above", "split", "leaf"} :
                      tick = (CASE k = "above" -> bLog[b].aboveAt
                                [] k = "split" -> bLog[b].splitAt
                                [] k = "leaf" -> bLog[b].leafAt) }) <= 1)
    /\ [][\A b \in BranchIds :
            (pc = "traverse" /\ HasCur /\ Cur = Ref(OBJECT_BRANCH, b)) =>
               LET old == branchObjs[b]
                   new == branchObjs'[b]
                   gainedAbove == new.above # old.above
                   gainedSplit == old.split <= 0 /\ new.split > 0
                   gainedLeaf == Len(new.leaves) > Len(old.leaves)
               IN  /\ gainedAbove =>
                         /\ phase = "extend" /\ phase' = "none"
                         /\ ~gainedSplit /\ ~gainedLeaf
                         /\ events' = Append(events, Event(EVENT_NEW,
                                          Ref(OBJECT_BRANCH, new.above)))
                   /\ gainedSplit =>
                         /\ phase = "split" /\ phase' = "none"
                         /\ ~gainedLeaf
                         /\ events' = Append(events, Event(EVENT_NEW,
                                          Ref(OBJECT_BRANCH, new.split)))
                   /\ gainedLeaf =>
                         /\ phase = "leaf" /\ phase' = "none"
                         /\ new.leaves = Append(old.leaves, Len(leafObjs'))
                         /\ events' = Append(events, Event(EVENT_NEW,
                                          Ref(OBJECT_LEAF, Len(leafObjs'))))
                   /\ ~(gainedAbove \/ gainedSplit \/ gainedLeaf) =>
                         events' = events]_vars

\* the root's third update has returned: its first created the `above`
\* child while split was unset, its second the split child while a leaf
\* could be grown, its third a leaf
C17_Witness ==
    /\ tick = 3 /\ pc = "apply"
    /\ bLog[1].aboveAt = 1 /\ bLog[1].splitAt = 2 /\ bLog[1].leafAt = 3
    /\ Cardinality(SpawnsOf(1)) = 1

(* ---------------- C18 ---------------- *)
\* C18: a branch of depth MAX_DEPTH or more has no `above` child and no
\* split child and has returned no Spawn event for a branch; no branch has a
\* depth above MAX_DEPTH; and no exception is raised.
C18_DepthIsTerminal ==
    /\ \A b \in BranchIds :
          /\ branchObjs[b].depth <= MAX_DEPTH
          /\ branchObjs[b].depth >= MAX_DEPTH =>
                /\ branchObjs[b].above = None
                /\ branchObjs[b].split \in {None, Rejected}
                /\ bLog[b].nAbove = 0 /\ bLog[b].nSplit = 0
                /\ \A i \in 1 .. Len(events) :
                      (/\ events[i].type = EVENT_NEW
                       /\ events[i].data.objectType = OBJECT_BRANCH) =>
                          branchObjs[events[i].data.id].parent # b
    /\ error = "none" /\ pc # "raised"

\* a branch of depth MAX_DEPTH has reached its full height, and its
\* attempt_split has run with split unset, with the sentinel, and again
C18_Witness ==
    \E b \in BranchIds :
        /\ branchObjs[b].depth = MAX_DEPTH
        /\ branchObjs[b].height >= HeightSteps
        /\ branchObjs[b].radius > 0
        /\ bLog[b].resets >= 1
        /\ branchObjs[b].split = Rejected
        /\ pc = "idle"

(* ---------------- C19 ---------------- *)
\* C19: the rejected sentinel of `split` is replaced only on a branch with
\* depth > 0.75 x MAX_DEPTH, only by the unset value, and in an
\* attempt_split that creates no branch and returns False; on a branch with
\* depth <= 0.75 x MAX_DEPTH the sentinel, once set, stays, so that the
\* branch never acquires a split child.
C19_RejectedReset ==
    [][\A b \in BranchIds :
          /\ (branchObjs[b].split = Rejected
                  /\ branchObjs'[b].split # Rejected) =>
                /\ 4 * branchObjs[b].depth > 3 * MAX_DEPTH
                /\ branchObjs'[b].split = None
                /\ phase = "split" /\ Cur = Ref(OBJECT_BRANCH, b)
                /\ phase' = "leaf"
                /\ Len(branchObjs') = Len(branchObjs)
                /\ events' = events
          /\ (branchObjs[b].split = Rejected
                  /\ 4 * branchObjs[b].depth <= 3 * MAX_DEPTH) =>
                branchObjs'[b].split = Rejected]_vars

\* a branch of depth 4 of 5 has a split child after its sentinel was reset,
\* and a branch of depth 3 has kept the sentinel through three later updates
C19_Witness ==
    /\ \E b \in BranchIds :
          /\ 4 * branchObjs[b].depth > 3 * MAX_DEPTH
          /\ bLog[b].resets >= 1
          /\ branchObjs[b].split > 0
    /\ \E c \in BranchIds :
          /\ 4 * branchObjs[c].depth <= 3 * MAX_DEPTH
          /\ 2 * branchObjs[c].depth > MAX_DEPTH
          /\ branchObjs[c].split = Rejected
          /\ branchObjs[c].height >= HeightSteps
          /\ bLog[c].grewAt # 0 /\ bLog[c].grewAt + 3 <= tick

(* ---------------- C20 ---------------- *)
\* the step appends a Spawn event for a leaf
SpawnsLeaf ==
    /\ Len(events') = Len(events) + 1
    /\ events'[Len(events')].type = EVENT_NEW
    /\ events'[Len(events')].data.objectType = OBJECT_LEAF

\* C20: a Spawn(leaf) event is returned, and a leaf appended, only by a
\* branch whose radius is below LEAF_GROWING_MAX_RADIUS, which has an
\* `above` child, and whose leaves before the new one were fewer than
\* 1/radius; and a branch without an `above` child has no leaves.
C20_LeafPreconditions ==
    /\ [][/\ SpawnsLeaf =>
               /\ phase = "leaf"
               /\ Len(branchObjs'[Cur.id].leaves)
                     = Len(branchObjs[Cur.id].leaves) + 1
               /\ leafObjs'[events'[Len(events')].data.id].branch = Cur.id
          /\ \A b \in BranchIds :
                Len(branchObjs'[b].leaves) > Len(branchObjs[b].leaves) =>
                   /\ SpawnsLeaf /\ Cur.id = b
                   /\ branchObjs[b].radius < LEAF_GROWING_MAX_RADIUS
                   /\ branchObjs[b].radius > 0
                   /\ branchObjs[b].above # None
                   /\ Len(branchObjs[b].leaves) * branchObjs[b].radius
                         < RADIUS_ONE]_vars
    /\ [](\A b \in BranchIds :
            branchObjs[b].above = None => branchObjs[b].leaves = <<>>)

\* a branch has just grown the last leaf its radius allows, and a branch of
\* full height without `above` child, thin enough for leaves, has none
C20_Witness ==
    /\ pc = "apply"
    /\ \E b \in BranchIds :
          /\ bLog[b].leafAt = tick
          /\ Len(branchObjs[b].leaves) >= 2
          /\ Len(branchObjs[b].leaves) * branchObjs[b].radius >= RADIUS_ONE
    /\ \E c \in BranchIds :
          /\ branchObjs[c].above = None
          /\ branchObjs[c].leaves = <<>>
          /\ branchObjs[c].radius > 0
          /\ branchObjs[c].radius < LEAF_GROWING_MAX_RADIUS
          /\ bLog[c].grewAt # 0 /\ bLog[c].grewAt + 2 <= tick

(* ---------------- C21 ---------------- *)
\* the number of Branch.update calls the root has had
RootUpdates ==
    IF pc = "traverse" /\ visited = <<>> THEN tick - 1 ELSE tick

\* C21: the attempt_grow_wider of the root adds the fixed increment to the
\* root's radius, once in every tick; the update of a branch with a parent
\* leaves the branch's own radius as it is; and the radius of a branch with
\* a parent changes only in the attempt_grow_wider of that parent.
C21_OnlyRootThickens ==
    /\ [][\A b \in BranchIds :
            /\ AboutToUpdateBranch(b) =>
                  branchObjs'[b].radius =
                     IF branchObjs[b].parent = None
                     THEN branchObjs[b].radius + RADIUS_INC
                     ELSE branchObjs[b].radius
            /\ branchObjs'[b].radius # branchObjs[b].radius =>
                  IF branchObjs[b].parent = None
                  THEN AboutToUpdateBranch(b)
                  ELSE AboutToUpdateBranch(branchObjs[b].parent)]_vars
    /\ [](branchObjs[1].radius = ROOT_RADIUS + RADIUS_INC * RootUpdates)

\* the attempt_grow_wider of a branch with a parent, a radius and both
\* children has just run, in the fourth tick or later
C21_Witness ==
    /\ pc = "traverse" /\ phase = "extend"
    /\ tick >= 4
    /\ branchObjs[Cur.id].parent # None
    /\ branchObjs[Cur.id].radius > 0
    /\ branchObjs[Cur.id].above # None
    /\ branchObjs[Cur.id].split > 0
    /\ branchObjs[1].radius = ROOT_RADIUS + RADIUS_INC * tick

(* ---------------- C22 ---------------- *)
\* how many times e occurs in the bucket of its type
Occurrences(reg, e) ==
    IF HasKey(reg, e.objectType)
    THEN LET list == reg[KeyIndex(reg, e.objectType)].list
         IN  Cardinality({ j \in 1 .. Len(list) : list[j] = e })
    ELSE 0

\* the events of this tick that the second loop has not applied yet
PendingEvents ==
    IF pc = "traverse" THEN 1 .. Len(events)
    ELSE IF pc = "apply" THEN ei .. Len(events)
    ELSE {}

\* C22: every Remove event returned in a tick is about a leaf that occurs
\* exactly once in the leaf bucket, from the moment it is returned to the
\* moment it is applied, and no two events of a tick remove the same leaf;
\* so list.remove raises neither ValueError nor KeyError.
C22_RemoveTargetsPresentLeaf ==
    /\ \A i \in PendingEvents :
          events[i].type = EVENT_DEL =>
             /\ events[i].data.objectType = OBJECT_LEAF
             /\ Occurrences(renderables, events[i].data) = 1
             /\ \A j \in PendingEvents :
                   (events[j].type = EVENT_DEL /\ j # i) =>
                      events[j].data # events[i].data
    /\ error = "none" /\ pc # "raised"

\* the second loop is about to apply a Remove event, after other events,
\* on a bucket that holds other leaves too
C22_Witness ==
    /\ pc = "apply" /\ ei > 1 /\ ei <= Len(events)
    /\ events[ei].type = EVENT_DEL
    /\ Occurrences(renderables, events[ei].data) = 1
    /\ Len(renderables[KeyIndex(renderables, OBJECT_LEAF)].list) >= 3

(* ---------------- C23 ---------------- *)
\* self.renderables[OBJECT_BRANCH]
BranchBucket == renderables[KeyIndex(renderables, OBJECT_BRANCH)].list

\* the factor attempt_grow_wider of the parent applies to child c
FactorOf(c) ==
    IF branchObjs[branchObjs[c].parent].above = c
    THEN BRANCH_TOP_RADIUS ELSE BRANCH_SPLIT_RADIUS

\* C23: in the branch bucket every branch with a parent stands after its
\* parent, so that when its update begins the parent's update of the same
\* tick has run; and when a tick has ended, every branch with a parent that
\* existed when the tick started has the radius of its parent times
\* BRANCH_TOP_RADIUS (`above` child) or BRANCH_SPLIT_RADIUS (split child).
C23_TaperDownFromRoot ==
    /\ \A i \in 1 .. Len(BranchBucket) :
          branchObjs[BranchBucket[i].id].parent # None =>
             \E j \in 1 .. i - 1 :
                BranchBucket[j].id = branchObjs[BranchBucket[i].id].parent
    /\ \A c \in BranchIds :
          (AboutToUpdateBranch(c) /\ branchObjs[c].parent # None) =>
             Ref(OBJECT_BRANCH, branchObjs[c].parent) \in Elems(visited)
    /\ (pc = "idle" /\ tick > 0) =>
          \A c \in 1 .. Len(startObjs.branches) :
             branchObjs[c].parent # None =>
                branchObjs[c].radius * FactorOf(c)[2]
                   = branchObjs[branchObjs[c].parent].radius * FactorOf(c)[1]

\* a tick has ended with a chain of three branches that existed at its
\* start: a split child of an `above` child of the root, all thickened;
\* a branch created in the tick exists too
C23_Witness ==
    /\ pc = "idle" /\ tick >= 5
    /\ \E c \in 1 .. Len(startObjs.branches) :
          /\ branchObjs[c].parent # None
          /\ branchObjs[branchObjs[c].parent].split = c
          /\ branchObjs[branchObjs[c].parent].parent = 1
          /\ branchObjs[1].above = branchObjs[c].parent
          /\ branchObjs[c].radius > 0
          /\ branchObjs[c].height >= HeightSteps
    /\ Len(branchObjs) > Len(startObjs.branches)

(* ---------------- C24 ---------------- *)
\* C24: when the update of a branch begins, and all through it, the radius
\* of the branch is above 0: a branch created with radius 0 has had its
\* radius written by its parent's update, earlier in the tick of its first
\* update; so 1 / self.radius in attempt_grow_leaf raises nothing.
C24_RadiusSetBeforeUpdate ==
    /\ \A b \in BranchIds :
          AboutToUpdateBranch(b) =>
             /\ branchObjs[b].radius > 0
             /\ startObjs.branches[b].radius = 0 =>
                   /\ branchObjs[b].parent # None
                   /\ Ref(OBJECT_BRANCH, branchObjs[b].parent) \in Elems(visited)
    /\ (pc = "traverse" /\ phase # "none") =>
          /\ branchObjs[Cur.id].radius > 0
          /\ ~LeafCheckRaises(branchObjs[Cur.id])
    /\ error # "ZeroDivisionError"

\* the first update of a split child has come to its attempt_grow_leaf: the
\* radius, 0 when the tick started, is above 0
C24_Witness ==
    /\ pc = "traverse" /\ phase = "leaf"
    /\ startObjs.branches[Cur.id].radius = 0
    /\ startObjs.branches[Cur.id].height = 0
    /\ branchObjs[Cur.id].radius > 0
    /\ branchObjs[branchObjs[Cur.id].parent].split = Cur.id

(* ---------------- C25 ---------------- *)
\* C25: when a tick has ended, every leaf in the leaf list of a branch is
\* in the leaf bucket and not dying, and every leaf in the leaf bucket that
\* is not in the leaf list of its branch is dying; no entity occurs twice in
\* the registry, and every entity is in the bucket of its objectType.
C25_LeafListsAndRegistry ==
    pc = "idle" =>
       /\ \A b \in BranchIds : \A l \in Elems(branchObjs[b].leaves) :
             /\ l \in LeafIds
             /\ leafObjs[l].branch = b
             /\ InLeafBucket(l)
             /\ ~leafObjs[l].dying
       /\ \A l \in LeafIds :
             (/\ InLeafBucket(l)
              /\ l \notin Elems(branchObjs[leafObjs[l].branch].leaves)) =>
                 leafObjs[l].dying
       /\ NoDup(Flatten(renderables))
       /\ \A i \in 1 .. Len(renderables) :
             \A e \in Elems(renderables[i].list) :
                e.objectType = renderables[i].key

\* a tick has ended with leaves attached to a branch, a detached leaf that
\* is still decaying in the bucket, and a leaf that has left the bucket
C25_Witness ==
    /\ pc = "idle"
    /\ \E b \in BranchIds : Len(branchObjs[b].leaves) >= 2
    /\ \E l \in LeafIds :
          /\ InLeafBucket(l) /\ leafObjs[l].dying /\ leafObjs[l].age >= 1
          /\ l \notin Elems(branchObjs[leafObjs[l].branch].leaves)
    /\ \E m \in LeafIds : ~InLeafBucket(m) /\ leafObjs[m].age = 0

====
